---- MODULE Spec2Model ----
(***************************************************************************)
(* routecheck (src/routecheck/main.cpp): main() parses the command line,   *)
(* sends one ICMP echo at ttl = max_hops to the destination and, when that *)
(* is answered and gateways were given, one echo per ttl 1..max_hops-1,    *)
(* marking every gateway whose address equals the responder's address.     *)
(*                                                                         *)
(* Strings are TLA+ strings; Chars gives the characters of each one so     *)
(* that atoi and InetPtonA are computed character by character.            *)
(* Standard output is modelled for the lines printed unconditionally       *)
(* (usage on argc < 2 and on -help, the two notices, the report); the      *)
(* lines printed only under -v are not part of the state.                  *)
(***************************************************************************)
EXTENDS Integers, Sequences, FiniteSets, TLC

VARIABLES
    args,          \* std::vector<std::string> args(argv + 1, argv + argc)
    pc,            \* position of main()
    a,             \* loop index of the argument loop (0-based, as in the code)
    verbose,
    destination,   \* NETWORK_NODE destination
    gateways,      \* std::vector<NETWORK_NODE> gateways
    timeout,
    max_hops,
    icmp_handle,   \* "none", "open", "invalid", "closed"
    ip_options,    \* [Ttl, Flags]
    reply_buf,     \* [Address]: the ICMP_ECHO_REPLY at the head of reply_buf
    i,             \* loop index of the hop sweep
    out,           \* lines written to std::cout (unconditional ones)
    exit_code,     \* value returned by main, NoExit while running
    probes,        \* history: the echo requests handed to IcmpSendEcho
    reach,         \* history: outcome of the first IcmpSendEcho
    sweepSeen,     \* history: responder addresses of answered sweep probes
    rematched,     \* history: a sweep reply repeated the address of a gateway already marked
    oobRead        \* history: the argument loop read args at an index >= args.size()

vars == <<args, pc, a, verbose, destination, gateways, timeout, max_hops,
          icmp_handle, ip_options, reply_buf, i, out, exit_code,
          probes, reach, sweepSeen, rematched, oobRead>>

----------------------------------------------------------------------------
(* Bounds of the model *)

MaxArgs == 4

(* Program constants *)

DefaultMaxHops == 30
DefaultTimeout == 10000
IP_FLAG_DF == 2
NoExit == 0 - 1

----------------------------------------------------------------------------
(* Strings and the conversions applied to them *)

Tokens == {"-v", "-help", "-d", "-gw", "-ttl", "-timeout",
           "1.1.1.1", "1.1.1.2", "9.9", "3"}

Chars(s) ==
    CASE s = ""         -> <<>>
      [] s = "-v"       -> <<"-", "v">>
      [] s = "-help"    -> <<"-", "h", "e", "l", "p">>
      [] s = "-d"       -> <<"-", "d">>
      [] s = "-gw"      -> <<"-", "g", "w">>
      [] s = "-ttl"     -> <<"-", "t", "t", "l">>
      [] s = "-timeout" -> <<"-", "t", "i", "m", "e", "o", "u", "t">>
      [] s = "1.1.1.1"  -> <<"1", ".", "1", ".", "1", ".", "1">>
      [] s = "1.1.1.2"  -> <<"1", ".", "1", ".", "1", ".", "2">>
      [] s = "9.9"      -> <<"9", ".", "9">>
      [] s = "3"        -> <<"3">>
      [] s = "-2"       -> <<"-", "2">>
      [] s = "300"      -> <<"3", "0", "0">>

DigitChars == <<"0", "1", "2", "3", "4", "5", "6", "7", "8", "9">>

IsDigit(c) == \E k \in 1..10 : DigitChars[k] = c

DigitVal(c) == (CHOOSE k \in 1..10 : DigitChars[k] = c) - 1

RECURSIVE AtoiDigits(_, _, _)
AtoiDigits(cs, k, acc) ==
    IF k > Len(cs) \/ ~IsDigit(cs[k]) THEN acc
    ELSE AtoiDigits(cs, k + 1, acc * 10 + DigitVal(cs[k]))

(* atoi: optional sign, then the leading decimal digits; 0 when none *)
atoi(s) ==
    LET cs == Chars(s) IN
    IF cs = <<>> THEN 0
    ELSE IF cs[1] = "-" THEN 0 - AtoiDigits(cs, 2, 0)
    ELSE IF cs[1] = "+" THEN AtoiDigits(cs, 2, 0)
    ELSE AtoiDigits(cs, 1, 0)

(* the dot-separated fields of a character sequence *)
RECURSIVE SplitDots(_, _, _)
SplitDots(cs, k, cur) ==
    IF k > Len(cs) THEN <<cur>>
    ELSE IF cs[k] = "." THEN <<cur>> \o SplitDots(cs, k + 1, <<>>)
    ELSE SplitDots(cs, k + 1, Append(cur, cs[k]))

OctetOk(f) ==
    /\ Len(f) >= 1
    /\ Len(f) <= 3
    /\ \A k \in 1..Len(f) : IsDigit(f[k])
    /\ AtoiDigits(f, 1, 0) <= 255

NullAddr == <<0, 0, 0, 0>>

(* InetPtonA(AF_INET, s, &ip): 1 and the four octets for a dotted-decimal *)
(* literal, otherwise not 1 and the output left as it was                 *)
InetPtonA(s, old) ==
    LET fs == SplitDots(Chars(s), 1, <<>>) IN
    IF Len(fs) = 4 /\ \A k \in 1..4 : OctetOk(fs[k])
    THEN [ret |-> 1, ip |-> [k \in 1..4 |-> AtoiDigits(fs[k], 1, 0)]]
    ELSE [ret |-> 0, ip |-> old]

----------------------------------------------------------------------------
(* Argument lists the runs start from *)

RECURSIVE SeqsUpTo(_, _)
SeqsUpTo(S, n) ==
    IF n = 0 THEN {<<>>}
    ELSE LET shorter == SeqsUpTo(S, n - 1) IN
         shorter \cup {Append(s, t) : s \in shorter, t \in S}

LongArgs ==
    { <<"-d", "1.1.1.1", "-gw", "1.1.1.2", "-gw", "1.1.1.2">>,
      <<"-d", "1.1.1.1", "-gw", "1.1.1.2", "-gw", "9.9">>,
      <<"-d", "1.1.1.1", "-gw", "1.1.1.2", "-gw", "1.1.1.1", "-ttl", "9.9", "3">>,
      <<"-v", "-d", "1.1.1.2", "-gw", "1.1.1.1", "-timeout", "3", "3">>,
      <<"-gw", "9.9", "-gw", "1.1.1.1", "-d", "1.1.1.1", "-ttl", "3">>,
      <<"-d", "1.1.1.1", "-gw", "1.1.1.2", "-ttl", "9.9", "1.1.1.1">>,
      <<"-d", "1.1.1.1", "-gw", "1.1.1.2", "-ttl", "3", "-v">>,
      <<"-d", "1.1.1.1", "-gw", "1.1.1.2", "-ttl", "9.9", "-2">>,
      <<"-d", "1.1.1.1", "-gw", "1.1.1.2", "-ttl", "9.9", "300">>,
      <<"-d", "1.1.1.1", "-ttl", "9.9", "300">> }

ArgLists == SeqsUpTo(Tokens, MaxArgs) \cup LongArgs

(* addresses a reply can come from *)
Responders == {<<1, 1, 1, 1>>, <<1, 1, 1, 2>>}

----------------------------------------------------------------------------
(* State after construction: the locals of main() as declared *)

NewNode == [hostname |-> "", ip |-> NullAddr, replied |-> FALSE]

Init ==
    /\ args \in ArgLists
    /\ pc = "start"
    /\ a = 0
    /\ verbose = FALSE
    /\ destination = NewNode
    /\ gateways = <<>>
    /\ timeout = DefaultTimeout
    /\ max_hops = DefaultMaxHops
    /\ icmp_handle = "none"
    /\ ip_options = [Ttl |-> 0, Flags |-> 0]
    /\ reply_buf = [Address |-> NullAddr]
    /\ i = 0
    /\ out = <<>>
    /\ exit_code = NoExit
    /\ probes = <<>>
    /\ reach = [status |-> "unsent", addr |-> NullAddr]
    /\ sweepSeen = {}
    /\ rematched = FALSE
    /\ oobRead = FALSE

Line(kind, id, status) == [kind |-> kind, id |-> id, status |-> status]

HelpLine == Line("Help", "", "")

Return(code) ==
    /\ exit_code' = code
    /\ pc' = "done"

transportVars == <<icmp_handle, ip_options, reply_buf, i, probes, reach,
                   sweepSeen, rematched>>

----------------------------------------------------------------------------
(* argc < 2: usage and return 1 *)
NoArgs ==
    /\ pc = "start"
    /\ Len(args) = 0
    /\ out' = Append(out, HelpLine)
    /\ Return(1)
    /\ UNCHANGED <<args, a, verbose, destination, gateways, timeout, max_hops>>
    /\ UNCHANGED oobRead
    /\ UNCHANGED transportVars

(* the any_of scan for "-v" that precedes the argument loop *)
Begin ==
    /\ pc = "start"
    /\ Len(args) > 0
    /\ verbose' = (\E k \in 1..Len(args) : args[k] = "-v")
    /\ a' = 0
    /\ pc' = "parse"
    /\ UNCHANGED <<args, destination, gateways, timeout, max_hops, out, exit_code>>
    /\ UNCHANGED oobRead
    /\ UNCHANGED transportVars

----------------------------------------------------------------------------
(* The argument loop, one iteration per action *)

InLoop == pc = "parse" /\ a < Len(args)

Cur == args[a + 1]

(* args[k], k counted from 0 as in the code, is outside the vector *)
OutOfRange(k) == k >= Len(args)

(* what a read past the end of the vector may yield when it does not fault *)
Garbage == {"1.1.1.2", "9.9", "3"}

ValueAt(k) == IF OutOfRange(k) THEN Garbage ELSE {args[k + 1]}

(* position of the string handed to atoi by -ttl and -timeout: a is *)
(* incremented first, then args[a + 1] is read                      *)
NumberIndex(k) == (k + 1) + 1

SetDestination(node, v) ==
    LET r == InetPtonA(v, node.ip) IN
    [hostname |-> IF r.ret # 1 THEN node.hostname ELSE v,
     ip       |-> r.ip,
     replied  |-> node.replied]

(* the node built for a -gw value; it is pushed whatever InetPtonA said *)
GatewayNode(v) ==
    LET r == InetPtonA(v, NullAddr) IN
    [hostname |-> IF r.ret # 1 THEN "" ELSE v,
     ip       |-> r.ip,
     replied  |-> FALSE]

ParseV ==
    /\ InLoop
    /\ Cur = "-v"
    /\ verbose' = TRUE
    /\ a' = a + 1
    /\ UNCHANGED <<args, pc, destination, gateways, timeout, max_hops, out, exit_code>>
    /\ UNCHANGED oobRead
    /\ UNCHANGED transportVars

ParseHelp ==
    /\ InLoop
    /\ Cur = "-help"
    /\ out' = Append(out, HelpLine)
    /\ a' = a + 1
    /\ UNCHANGED <<args, pc, verbose, destination, gateways, timeout, max_hops, exit_code>>
    /\ UNCHANGED oobRead
    /\ UNCHANGED transportVars

ParseD ==
    /\ InLoop
    /\ Cur = "-d"
    /\ \E v \in ValueAt(a + 1) :
          destination' = SetDestination(destination, v)
    /\ a' = a + 2
    /\ UNCHANGED <<args, pc, verbose, gateways, timeout, max_hops, out, exit_code>>
    /\ oobRead' = (oobRead \/ OutOfRange(a + 1))
    /\ UNCHANGED transportVars

ParseGw ==
    /\ InLoop
    /\ Cur = "-gw"
    /\ \E v \in ValueAt(a + 1) :
          gateways' = Append(gateways, GatewayNode(v))
    /\ a' = a + 2
    /\ UNCHANGED <<args, pc, verbose, destination, timeout, max_hops, out, exit_code>>
    /\ oobRead' = (oobRead \/ OutOfRange(a + 1))
    /\ UNCHANGED transportVars

ParseTtl ==
    /\ InLoop
    /\ Cur = "-ttl"
    /\ \E v \in ValueAt(NumberIndex(a)) :
          max_hops' = atoi(v)
    /\ a' = a + 2
    /\ UNCHANGED <<args, pc, verbose, destination, gateways, timeout, out, exit_code>>
    /\ oobRead' = (oobRead \/ OutOfRange(NumberIndex(a)))
    /\ UNCHANGED transportVars

ParseTimeout ==
    /\ InLoop
    /\ Cur = "-timeout"
    /\ \E v \in ValueAt(NumberIndex(a)) :
          timeout' = atoi(v)
    /\ a' = a + 2
    /\ UNCHANGED <<args, pc, verbose, destination, gateways, max_hops, out, exit_code>>
    /\ oobRead' = (oobRead \/ OutOfRange(NumberIndex(a)))
    /\ UNCHANGED transportVars

(* any other string matches no branch of the loop *)
ParseOther ==
    /\ InLoop
    /\ Cur \notin {"-v", "-help", "-d", "-gw", "-ttl", "-timeout"}
    /\ a' = a + 1
    /\ UNCHANGED <<args, pc, verbose, destination, gateways, timeout, max_hops, out, exit_code>>
    /\ UNCHANGED oobRead
    /\ UNCHANGED transportVars

(* a read past the end of args may also fault: the process dies there *)
ParseFault ==
    /\ InLoop
    /\ \/ Cur \in {"-d", "-gw"} /\ OutOfRange(a + 1)
       \/ Cur \in {"-ttl", "-timeout"} /\ OutOfRange(NumberIndex(a))
    /\ pc' = "crashed"
    /\ UNCHANGED <<args, a, verbose, destination, gateways, timeout, max_hops, out, exit_code>>
    /\ oobRead' = TRUE
    /\ UNCHANGED transportVars

----------------------------------------------------------------------------
(* After the loop *)

NoDestination ==
    /\ pc = "parse"
    /\ ~(a < Len(args))
    /\ destination.hostname = ""
    /\ out' = Append(out, Line("No destination specified", "", ""))
    /\ Return(2)
    /\ UNCHANGED <<args, a, verbose, destination, gateways, timeout, max_hops>>
    /\ UNCHANGED oobRead
    /\ UNCHANGED transportVars

ConfigOk ==
    /\ pc = "parse"
    /\ ~(a < Len(args))
    /\ destination.hostname # ""
    /\ out' = IF Len(gateways) = 0
              THEN Append(out, Line("No gateways specified", "", ""))
              ELSE out
    /\ pc' = "create"
    /\ UNCHANGED <<args, a, verbose, destination, gateways, timeout, max_hops, exit_code>>
    /\ UNCHANGED oobRead
    /\ UNCHANGED transportVars

----------------------------------------------------------------------------
(* Matching a responder address against the gateways *)

(* variant: only the network part of the two addresses is compared *)
AddrEqualPrefix(x, y) == x[1] = y[1] /\ x[2] = y[2] /\ x[3] = y[3]

(* addr.S_un.S_addr == gateways[gi].ip.S_un.S_addr *)
AddrEqual(x, y) == x = y

(* variant: the flag is assigned the result of the comparison *)
ObserveAssign(gws, addr) ==
    [g \in 1..Len(gws) |->
        [gws[g] EXCEPT !.replied = AddrEqual(addr, gws[g].ip)]]

(* variant: the loop is left at the first gateway that matches *)
ObserveFirst(gws, addr) ==
    [g \in 1..Len(gws) |->
        IF /\ AddrEqual(addr, gws[g].ip)
           /\ \A h \in 1..(g - 1) : ~AddrEqual(addr, gws[h].ip)
        THEN [gws[g] EXCEPT !.replied = TRUE]
        ELSE gws[g]]

(* the loop over gateways for one answered probe *)
Observe(gws, addr) ==
    [g \in 1..Len(gws) |->
        IF AddrEqual(addr, gws[g].ip)
        THEN [gws[g] EXCEPT !.replied = TRUE]
        ELSE gws[g]]

(* variant: a probe counts as answered from the second reply on *)
SweepRepliedTwice(rc) == rc > 1

(* the test on the reply_count of a sweep probe *)
SweepReplied(rc) == rc > 0

----------------------------------------------------------------------------
(* The ICMP context and the reachability probe *)

parseVars == <<args, a, verbose, timeout, max_hops, oobRead>>

(* the request IcmpSendEcho transmits for the current ip_options; hop is *)
(* the int that was assigned to the unsigned char ip_options.Ttl         *)
Echo(opts, hop) ==
    [ttl |-> opts.Ttl, hop |-> hop, dest |-> destination.ip, timeout |-> timeout]

(* variant: the sweep counts down from max_hops *)
SweepTtlFromTop(k) == max_hops - k

(* the value the sweep assigns to ip_options.Ttl in iteration k *)
SweepTtl(k) == k

(* IcmpCreateFile returned INVALID_HANDLE_VALUE *)
CreateFail ==
    /\ pc = "create"
    /\ icmp_handle' = "invalid"
    /\ Return(3)
    /\ UNCHANGED parseVars
    /\ UNCHANGED <<destination, gateways, out, ip_options, reply_buf, i,
                   probes, reach, sweepSeen, rematched>>

(* the handle is valid: ip_options is filled (Ttl is an unsigned char) and *)
(* the first IcmpSendEcho is entered                                       *)
CreateOk ==
    /\ pc = "create"
    /\ icmp_handle' = "open"
    /\ ip_options' = [Ttl |-> max_hops % 256, Flags |-> IP_FLAG_DF]
    /\ probes' = Append(probes, Echo(ip_options', max_hops))
    /\ pc' = "reachWait"
    /\ UNCHANGED parseVars
    /\ UNCHANGED <<destination, gateways, out, exit_code, reply_buf, i,
                   reach, sweepSeen, rematched>>

(* variant: the test on the first reply_count never ends the run *)
ReachFailedNever(rc) == FALSE

(* the test on the first reply_count that ends the run *)
ReachFailed(rc) == rc = 0

(* variant: the first reply is matched against the gateways as well *)
RecvReachMatching ==
    /\ pc = "reachWait"
    /\ \E rc \in {0, 1}, addr \in Responders :
          /\ reply_buf' = IF rc > 0 THEN [Address |-> addr] ELSE reply_buf
          /\ reach' = IF rc > 0 THEN [status |-> "replied", addr |-> addr]
                                ELSE [status |-> "timeout", addr |-> NullAddr]
          /\ IF ReachFailed(rc)
             THEN /\ icmp_handle' = "closed"
                  /\ Return(4)
                  /\ UNCHANGED <<destination, gateways, i>>
             ELSE /\ destination' = [destination EXCEPT !.replied = TRUE]
                  /\ gateways' = Observe(gateways, reply_buf'.Address)
                  /\ IF Len(gateways) > 0
                     THEN i' = 1 /\ pc' = "sweep"
                     ELSE i' = i /\ pc' = "report"
                  /\ UNCHANGED <<icmp_handle, exit_code>>
    /\ UNCHANGED parseVars
    /\ UNCHANGED <<out, ip_options, probes, sweepSeen, rematched>>

(* variant: the early return leaves the handle open *)
RecvReachLeak ==
    /\ pc = "reachWait"
    /\ \E rc \in {0, 1}, addr \in Responders :
          /\ reply_buf' = IF rc > 0 THEN [Address |-> addr] ELSE reply_buf
          /\ reach' = IF rc > 0 THEN [status |-> "replied", addr |-> addr]
                                ELSE [status |-> "timeout", addr |-> NullAddr]
          /\ IF ReachFailed(rc)
             THEN /\ Return(4)
                  /\ UNCHANGED <<destination, i>>
             ELSE /\ destination' = [destination EXCEPT !.replied = TRUE]
                  /\ IF Len(gateways) > 0
                     THEN i' = 1 /\ pc' = "sweep"
                     ELSE i' = i /\ pc' = "report"
                  /\ UNCHANGED exit_code
    /\ UNCHANGED parseVars
    /\ UNCHANGED <<icmp_handle, gateways, out, ip_options, probes, sweepSeen,
                   rematched>>

(* variant: the sweep is entered whether or not gateways were given *)
RecvReachAlwaysSweep ==
    /\ pc = "reachWait"
    /\ \E rc \in {0, 1}, addr \in Responders :
          /\ reply_buf' = IF rc > 0 THEN [Address |-> addr] ELSE reply_buf
          /\ reach' = IF rc > 0 THEN [status |-> "replied", addr |-> addr]
                                ELSE [status |-> "timeout", addr |-> NullAddr]
          /\ IF ReachFailed(rc)
             THEN /\ icmp_handle' = "closed"
                  /\ Return(4)
                  /\ UNCHANGED <<destination, i>>
             ELSE /\ destination' = [destination EXCEPT !.replied = TRUE]
                  /\ i' = 1
                  /\ pc' = "sweep"
                  /\ UNCHANGED <<icmp_handle, exit_code>>
    /\ UNCHANGED parseVars
    /\ UNCHANGED <<gateways, out, ip_options, probes, sweepSeen, rematched>>

(* the first IcmpSendEcho returns: rc replies, the first one from addr *)
RecvReach ==
    /\ pc = "reachWait"
    /\ \E rc \in {0, 1}, addr \in Responders :
          /\ reply_buf' = IF rc > 0 THEN [Address |-> addr] ELSE reply_buf
          /\ reach' = IF rc > 0 THEN [status |-> "replied", addr |-> addr]
                                ELSE [status |-> "timeout", addr |-> NullAddr]
          /\ IF ReachFailed(rc)
             THEN /\ icmp_handle' = "closed"
                  /\ Return(4)
                  /\ UNCHANGED <<destination, i>>
             ELSE /\ destination' = [destination EXCEPT !.replied = TRUE]
                  /\ IF Len(gateways) > 0
                     THEN i' = 1 /\ pc' = "sweep"
                     ELSE i' = i /\ pc' = "report"
                  /\ UNCHANGED <<icmp_handle, exit_code>>
    /\ UNCHANGED parseVars
    /\ UNCHANGED <<gateways, out, ip_options, probes, sweepSeen, rematched>>

----------------------------------------------------------------------------
(* The hop sweep *)

(* i < max_hops holds: the next IcmpSendEcho is entered with Ttl = i *)
SweepSend ==
    /\ pc = "sweep"
    /\ i < max_hops
    /\ ip_options' = [ip_options EXCEPT !.Ttl = SweepTtl(i) % 256]
    /\ probes' = Append(probes, Echo(ip_options', SweepTtl(i)))
    /\ pc' = "sweepWait"
    /\ UNCHANGED parseVars
    /\ UNCHANGED <<destination, gateways, out, exit_code, icmp_handle,
                   reply_buf, i, reach, sweepSeen, rematched>>

(* variant: a sweep probe without reply ends the run like the first one *)
RecvSweepAbort ==
    /\ pc = "sweepWait"
    /\ \E rc \in {0, 1}, addr \in Responders :
          /\ reply_buf' = IF rc > 0 THEN [Address |-> addr] ELSE reply_buf
          /\ sweepSeen' = IF rc > 0 THEN sweepSeen \cup {addr} ELSE sweepSeen
          /\ rematched' = (rematched \/ (rc > 0 /\ \E g \in 1..Len(gateways) :
                                gateways[g].replied /\ gateways[g].ip = addr))
          /\ IF SweepReplied(rc)
             THEN /\ gateways' = Observe(gateways, reply_buf'.Address)
                  /\ i' = i + 1
                  /\ pc' = "sweep"
                  /\ UNCHANGED <<exit_code, icmp_handle>>
             ELSE /\ icmp_handle' = "closed"
                  /\ Return(4)
                  /\ UNCHANGED <<gateways, i>>
    /\ UNCHANGED parseVars
    /\ UNCHANGED <<destination, out, ip_options, probes, reach>>

(* it returns: the gateways are matched when it was answered, then i++ *)
RecvSweep ==
    /\ pc = "sweepWait"
    /\ \E rc \in {0, 1}, addr \in Responders :
          /\ reply_buf' = IF rc > 0 THEN [Address |-> addr] ELSE reply_buf
          /\ sweepSeen' = IF rc > 0 THEN sweepSeen \cup {addr} ELSE sweepSeen
          /\ rematched' = (rematched \/ (rc > 0 /\ \E g \in 1..Len(gateways) :
                                gateways[g].replied /\ gateways[g].ip = addr))
          /\ gateways' = IF SweepReplied(rc)
                         THEN Observe(gateways, reply_buf'.Address)
                         ELSE gateways
    /\ i' = i + 1
    /\ pc' = "sweep"
    /\ UNCHANGED parseVars
    /\ UNCHANGED <<destination, out, exit_code, icmp_handle, ip_options,
                   probes, reach>>

(* i < max_hops fails: the loop is left *)
SweepEnd ==
    /\ pc = "sweep"
    /\ ~(i < max_hops)
    /\ pc' = "report"
    /\ UNCHANGED parseVars
    /\ UNCHANGED <<destination, gateways, out, exit_code>>
    /\ UNCHANGED transportVars

----------------------------------------------------------------------------
(* The report *)

(* variant: the loop over the gateways is missing from the report *)
ReportLinesNoGateways(dest, gws) ==
    <<Line("Destination", dest.hostname, "replied")>>

GatewayLine(gw) ==
    Line("Gateway", gw.hostname, IF gw.replied THEN "replied" ELSE "no reply")

(* variant: the gateways are reported last to first *)
ReportLinesReversed(dest, gws) ==
    <<Line("Destination", dest.hostname, "replied")>>
        \o [g \in 1..Len(gws) |-> GatewayLine(gws[Len(gws) + 1 - g])]

ReportLines(dest, gws) ==
    <<Line("Destination", dest.hostname, "replied")>>
        \o [g \in 1..Len(gws) |-> GatewayLine(gws[g])]

Report ==
    /\ pc = "report"
    /\ out' = out \o ReportLines(destination, gateways)
    /\ icmp_handle' = "closed"
    /\ Return(0)
    /\ UNCHANGED parseVars
    /\ UNCHANGED <<destination, gateways, ip_options, reply_buf, i, probes,
                   reach, sweepSeen, rematched>>

----------------------------------------------------------------------------
Next ==
    \/ NoArgs
    \/ Begin
    \/ ParseV
    \/ ParseHelp
    \/ ParseD
    \/ ParseGw
    \/ ParseTtl
    \/ ParseTimeout
    \/ ParseOther
    \/ ParseFault
    \/ NoDestination
    \/ ConfigOk
    \/ CreateFail
    \/ CreateOk
    \/ RecvReach
    \/ SweepSend
    \/ RecvSweep
    \/ SweepEnd
    \/ Report

Spec == Init /\ [][Next]_vars

----------------------------------------------------------------------------
(* Vocabulary of the properties *)

Gw == 1..Len(gateways)

(* main has returned 0 and the report is the tail of the output *)
Finished == pc = "done" /\ exit_code = 0 /\ Len(out) > Len(gateways)

(* the report line printed for the g-th gateway *)
GwLine(g) == out[Len(out) - Len(gateways) + g]

(* the line printed just before the gateway lines *)
DestLine == out[Len(out) - Len(gateways)]

(* responder addresses of all answered probes of the run *)
AllResponders ==
    sweepSeen \cup (IF reach.status = "replied" THEN {reach.addr} ELSE {})

----------------------------------------------------------------------------
(* C1: if the reachability probe (the first probe, at ttl = max_hops) gets *)
(* no reply, the run sends no further probe, no gateway flag is ever set   *)
(* and the process terminates with exit code 4.                            *)
C1_NoReplyEndsRun ==
    reach.status = "timeout" =>
        /\ pc = "done"
        /\ exit_code = 4
        /\ Len(probes) = 1
        /\ \A g \in Gw : ~gateways[g].replied

C1_Witness ==
    /\ reach.status = "timeout"
    /\ exit_code = 4
    /\ Len(gateways) > 0
    /\ max_hops > 1

(* C2: in a run whose reachability probe succeeded, a gateway whose        *)
(* address equals the responder address of an answered sweep probe is      *)
(* reported as "replied" in the final report.                              *)
C2_SweepResponderReported ==
    (pc = "done" /\ reach.status = "replied") =>
        /\ Finished
        /\ \A g \in Gw :
              gateways[g].ip \in sweepSeen =>
                 GwLine(g) = Line("Gateway", gateways[g].hostname, "replied")

C2_Witness ==
    /\ Finished
    /\ \E g \in Gw :
          /\ gateways[g].ip \in sweepSeen
          /\ GwLine(g).status = "replied"

(* C3: a gateway whose address is not the responder address of any         *)
(* answered probe of the run is never marked replied, and the final report *)
(* shows it as "no reply".                                                 *)
C3_UnseenStaysNoReply ==
    \A g \in Gw :
        gateways[g].ip \notin AllResponders =>
            /\ ~gateways[g].replied
            /\ Finished =>
                  GwLine(g) = Line("Gateway", gateways[g].hostname, "no reply")

C3_Witness ==
    /\ Finished
    /\ sweepSeen # {}
    /\ \E g \in Gw :
          /\ gateways[g].ip \notin AllResponders
          /\ gateways[g].hostname # ""
          /\ GwLine(g).status = "no reply"

(* C4 as claimed: when the reachability probe is answered from address A,  *)
(* every gateway whose address equals A is marked replied by the end of    *)
(* the run, also when no sweep probe returned A.                           *)
C4_ReachReplyMatched ==
    (pc = "done" /\ reach.status = "replied" /\ ~oobRead) =>
        \A g \in Gw : gateways[g].ip = reach.addr => gateways[g].replied

(* C4 amended: the answer to the reachability probe sets                   *)
(* destination.replied and nothing else; a gateway is marked replied only  *)
(* if an answered sweep probe came from its address.                       *)
C4_OnlySweepMatches ==
    reach.status = "replied" =>
        /\ destination.replied
        /\ \A g \in Gw : gateways[g].replied => gateways[g].ip \in sweepSeen

C4_Witness ==
    /\ pc = "done"
    /\ exit_code = 0
    /\ \E g \in Gw :
          /\ gateways[g].ip = reach.addr
          /\ ~gateways[g].replied

(* C5: the replied flag of the destination and of every gateway starts     *)
(* false and in every step stays the same or goes from false to true.      *)
C5_RepliedMonotonic ==
    /\ ~destination.replied
    /\ gateways = <<>>
    /\ [][ /\ destination.replied => destination'.replied
           /\ Len(gateways') >= Len(gateways)
           /\ \A g \in Gw : gateways[g].replied => gateways'[g].replied
           /\ \A g \in (Len(gateways) + 1)..Len(gateways') :
                 ~gateways'[g].replied ]_vars

C5_Witness ==
    /\ rematched
    /\ \E g \in Gw : gateways[g].replied /\ gateways[g].ip = reply_buf.Address

(* C6: any two gateway entries with the same address have the same replied *)
(* value in every state, and the same status in the final report.          *)
C6_DuplicatesAgree ==
    \A g \in Gw, h \in Gw :
        gateways[g].ip = gateways[h].ip =>
            /\ gateways[g].replied = gateways[h].replied
            /\ Finished => GwLine(g).status = GwLine(h).status

C6_Witness ==
    /\ Finished
    /\ \E g \in Gw, h \in Gw :
          /\ g # h
          /\ gateways[g].ip = gateways[h].ip
          /\ gateways[g].hostname # ""
          /\ GwLine(g).status = "replied"
          /\ GwLine(h).status = "replied"

----------------------------------------------------------------------------
(* The command line as the flag table reads it *)

ValueFlags == {"-d", "-gw", "-ttl", "-timeout"}

(* the argument loop is over and did not fault *)
Parsed == pc \notin {"start", "parse", "crashed"}

IsLiteral(s) == InetPtonA(s, NullAddr).ret = 1

IsInteger(s) ==
    LET cs == Chars(s) IN
    /\ cs # <<>>
    /\ \A k \in 1..Len(cs) : IsDigit(cs[k])

(* the flag/value pairs of xs from position k on: a value flag takes the *)
(* token that follows it                                                 *)
RECURSIVE FlagPairs(_, _)
FlagPairs(xs, k) ==
    IF k > Len(xs) THEN <<>>
    ELSE IF xs[k] \in ValueFlags
         THEN IF k + 1 > Len(xs) THEN <<>>
              ELSE <<[flag |-> xs[k], value |-> xs[k + 1]]>> \o FlagPairs(xs, k + 2)
         ELSE FlagPairs(xs, k + 1)

IsValidGw(p) == p.flag = "-gw" /\ IsLiteral(p.value)

ValidGwPairs == SelectSeq(FlagPairs(args, 1), IsValidGw)

IsTtl(p) == p.flag = "-ttl"

TtlPairs == SelectSeq(FlagPairs(args, 1), IsTtl)

(* the report is the tail of the output: the Destination line, then one *)
(* Gateway line per gateway                                             *)
ReportPrinted ==
    /\ Len(out) > Len(gateways)
    /\ DestLine = Line("Destination", destination.hostname, "replied")
    /\ \A g \in Gw :
          /\ GwLine(g).kind = "Gateway"
          /\ GwLine(g).id = gateways[g].hostname

NoReportLine ==
    \A k \in 1..Len(out) : out[k].kind \notin {"Destination", "Gateway"}

----------------------------------------------------------------------------
(* C7: an invalid IPv4 literal given to -gw is not appended: after parsing *)
(* the gateway sequence holds exactly the valid -gw literals in input      *)
(* order (stated for the runs that read no argument past the end).         *)
C7_InvalidGwSkipped ==
    (Parsed /\ ~oobRead) =>
        /\ Len(gateways) = Len(ValidGwPairs)
        /\ \A g \in Gw : gateways[g].hostname = ValidGwPairs[g].value

(* C8: when "-ttl N" appears, N an integer literal, max_hops after parsing *)
(* is N and the reachability probe carries ttl N; without -ttl max_hops is *)
(* 30 (stated for the runs that read no argument past the end).            *)
C8_TtlTakesNextToken ==
    (Parsed /\ ~oobRead) =>
        /\ ( /\ TtlPairs # <<>>
             /\ \A k \in 1..Len(TtlPairs) : IsInteger(TtlPairs[k].value) ) =>
               LET N == atoi(TtlPairs[Len(TtlPairs)].value) IN
               /\ max_hops = N
               /\ probes # <<>> => probes[1].ttl = N
        /\ (\A k \in 1..Len(args) : args[k] # "-ttl") =>
               max_hops = DefaultMaxHops

(* C9: a non-empty argument list with no -d followed by a valid IPv4       *)
(* literal ends with exit code 2 and never touches the transport.          *)
C9_NoDestinationExits2 ==
    ( /\ Len(args) > 0
      /\ ~\E k \in 1..(Len(args) - 1) : args[k] = "-d" /\ IsLiteral(args[k + 1]) ) =>
        /\ pc \in {"start", "parse", "done"}
        /\ pc = "done" => exit_code = 2
        /\ icmp_handle = "none"
        /\ probes = <<>>

(* C10 as claimed: every run that sends the reachability probe prints the  *)
(* Destination line and one Gateway line per gateway before it terminates, *)
(* whether or not the destination replied.                                 *)
C10_ReportOnEveryCompletion ==
    (pc = "done" /\ probes # <<>> /\ ~oobRead) => ReportPrinted

(* C10 amended: the report is printed on the completion path of exit code  *)
(* 0 only. A run whose reachability probe is answered ends with code 0     *)
(* after printing the Destination line and one Gateway line per gateway;   *)
(* a run whose reachability probe is not answered ends with code 4 and     *)
(* prints no report line.                                                  *)
C10_ReportOnlyOnSuccess ==
    (pc = "done" /\ probes # <<>>) =>
        IF reach.status = "replied"
        THEN exit_code = 0 /\ ReportPrinted
        ELSE exit_code = 4 /\ NoReportLine

C10_Witness ==
    /\ pc = "done"
    /\ exit_code = 0
    /\ Len(gateways) >= 2
    /\ ReportPrinted

----------------------------------------------------------------------------
(* the lines of the output that belong to the report *)
IsReportLine(l) == l.kind \in {"Destination", "Gateway"}

ReportOut == SelectSeq(out, IsReportLine)

HandleSteps == {<<"none", "open">>, <<"none", "invalid">>, <<"open", "closed">>}

(* C11: the ICMP session is acquired at most once, every probe is sent     *)
(* while it is held, and in every terminal state it is not held: never     *)
(* created (codes 1, 2), failed to be created (code 3) or released exactly *)
(* once (codes 0, 4).                                                      *)
C11_SessionScoped ==
    /\ [](pc = "done" =>
             /\ exit_code \in {1, 2} => icmp_handle = "none"
             /\ exit_code = 3 => icmp_handle = "invalid"
             /\ exit_code \in {0, 4} => icmp_handle = "closed"
             /\ exit_code \in 0..4)
    /\ [][ /\ probes' # probes => icmp_handle' = "open"
           /\ icmp_handle' # icmp_handle =>
                 <<icmp_handle, icmp_handle'>> \in HandleSteps ]_vars

C11_Witness ==
    /\ pc = "done"
    /\ exit_code = 4
    /\ icmp_handle = "closed"
    /\ Len(probes) = 1

(* C12: with zero gateways and an answered reachability probe the run      *)
(* sends exactly that one probe, exits with code 0, and the report is one  *)
(* destination line marked "replied" and no gateway line.                  *)
C12_NoGatewaysOneProbe ==
    (pc = "done" /\ reach.status = "replied" /\ Len(gateways) = 0) =>
        /\ Len(probes) = 1
        /\ exit_code = 0
        /\ ReportOut = <<Line("Destination", destination.hostname, "replied")>>

C12_Witness ==
    /\ pc = "done"
    /\ exit_code = 0
    /\ Len(gateways) = 0
    /\ max_hops > 1
    /\ Len(ReportOut) = 1

(* C13: on exit code 0 the Gateway lines correspond one-to-one, in input   *)
(* order, to the gateway sequence: the k-th line carries the identifier of *)
(* the k-th gateway and "replied" exactly when its flag is true; printing  *)
(* the report changes no flag.                                             *)
C13_ReportMirrorsGateways ==
    /\ []((pc = "done" /\ exit_code = 0) =>
             /\ Len(ReportOut) = Len(gateways) + 1
             /\ \A g \in Gw :
                   /\ ReportOut[g + 1].kind = "Gateway"
                   /\ ReportOut[g + 1].id = gateways[g].hostname
                   /\ (ReportOut[g + 1].status = "replied") = gateways[g].replied
                   /\ ReportOut[g + 1].status \in {"replied", "no reply"})
    /\ [][pc = "report" =>
             gateways' = gateways /\ destination' = destination]_vars

C13_Witness ==
    /\ pc = "done"
    /\ exit_code = 0
    /\ Len(gateways) = 2
    /\ gateways[1].hostname # gateways[2].hostname
    /\ gateways[1].replied
    /\ ~gateways[2].replied
    /\ ReportOut[2].status = "replied"
    /\ ReportOut[3].status = "no reply"

----------------------------------------------------------------------------
(* calls of IcmpSendEcho that have returned, and those that have not *)
Returned ==
    IF reach.status = "unsent" THEN 0
    ELSE 1 + (IF i >= 1 THEN i - 1 ELSE 0)

InFlight == Len(probes) - Returned

(* probes of a run that is swept to the end *)
FullCount == IF max_hops > 1 THEN max_hops ELSE 1

C15_SweepTimeoutSkipped ==
    /\ [][pc = "sweepWait" =>
             /\ pc' = "sweep"
             /\ i' = i + 1
             /\ exit_code' = NoExit
             /\ Len(gateways') = Len(gateways)
             /\ \A g \in Gw : gateways[g].replied => gateways'[g].replied]_vars
    /\ []((pc = "done" /\ reach.status = "replied") =>
             /\ exit_code = 0
             /\ ReportPrinted
             /\ Len(gateways) > 0 => Len(probes) = FullCount)

C15_Witness ==
    /\ pc = "done"
    /\ exit_code = 0
    /\ Len(gateways) > 0
    /\ max_hops >= 3
    /\ Len(probes) = max_hops
    /\ sweepSeen = {}
    /\ ReportPrinted

----------------------------------------------------------------------------
(* The argument loop in closed form: the configuration it leaves for the  *)
(* argument list xs when started at index k (0-based) with configuration  *)
(* c; oob records a read at an index >= xs.size(), where the loop stops   *)
(* being defined.                                                         *)

InitialConfig ==
    [destination |-> NewNode, gateways |-> <<>>, timeout |-> DefaultTimeout,
     max_hops |-> DefaultMaxHops, oob |-> FALSE]

RECURSIVE ParseFrom(_, _, _)
ParseFrom(xs, k, c) ==
    IF ~(k < Len(xs)) THEN c
    ELSE LET t == xs[k + 1] IN
         IF t \in {"-d", "-gw"}
         THEN IF (k + 1) >= Len(xs) THEN [c EXCEPT !.oob = TRUE]
              ELSE IF t = "-d"
                   THEN ParseFrom(xs, k + 2,
                          [c EXCEPT !.destination =
                                       SetDestination(c.destination, xs[k + 2])])
                   ELSE ParseFrom(xs, k + 2,
                          [c EXCEPT !.gateways =
                                       Append(c.gateways, GatewayNode(xs[k + 2]))])
         ELSE IF t \in {"-ttl", "-timeout"}
         THEN IF NumberIndex(k) >= Len(xs) THEN [c EXCEPT !.oob = TRUE]
              ELSE IF t = "-ttl"
                   THEN ParseFrom(xs, k + 2,
                          [c EXCEPT !.max_hops = atoi(xs[NumberIndex(k) + 1])])
                   ELSE ParseFrom(xs, k + 2,
                          [c EXCEPT !.timeout = atoi(xs[NumberIndex(k) + 1])])
         ELSE ParseFrom(xs, k + 1, c)

(* the closed form agrees with the loop of the run *)
ParseFromAgrees ==
    (Parsed /\ ~oobRead) =>
        LET r == ParseFrom(args, 0, InitialConfig) IN
        /\ ~r.oob
        /\ r.destination.hostname = destination.hostname
        /\ r.destination.ip = destination.ip
        /\ Len(r.gateways) = Len(gateways)
        /\ \A g \in Gw : /\ r.gateways[g].hostname = gateways[g].hostname
                         /\ r.gateways[g].ip = gateways[g].ip
        /\ r.max_hops = max_hops
        /\ r.timeout = timeout

(* positions of xs, from k on, where the flag table expects a flag *)
RECURSIVE FlagSlots(_, _)
FlagSlots(xs, k) ==
    IF k > Len(xs) THEN {}
    ELSE {k} \cup (IF xs[k] \in ValueFlags THEN FlagSlots(xs, k + 2)
                                           ELSE FlagSlots(xs, k + 1))

Without(xs, p) == SubSeq(xs, 1, p - 1) \o SubSeq(xs, p + 1, Len(xs))

----------------------------------------------------------------------------
(* C16: for every max_hops the parser can produce, every probe the run     *)
(* sends has a ttl in [1, max_hops], and with max_hops = 1 the only probe  *)
(* is the reachability probe (stated for the runs that read no argument    *)
(* past the end).                                                          *)
C16_TtlWithinHopRange ==
    ~oobRead =>
        /\ \A k \in 1..Len(probes) :
              /\ probes[k].ttl >= 1
              /\ probes[k].ttl <= max_hops
        /\ max_hops = 1 => Len(probes) <= 1

(* C17: the TTL carried by each transmitted echo request equals the value  *)
(* the loop intends for it, for every max_hops (stated for the runs that   *)
(* read no argument past the end).                                         *)
C17_TtlNotTruncated ==
    ~oobRead => \A k \in 1..Len(probes) : probes[k].ttl = probes[k].hop

(* C18: the argument loop never reads args at an index greater than or     *)
(* equal to the number of arguments.                                       *)
C18_ReadsInRange == ~oobRead

(* C19: removing a -v that stands where a flag is expected changes nothing *)
(* of what the loop leaves: destination, gateway sequence, max_hops and    *)
(* timeout are those of the list without it (both lists read in range).    *)
C19_VerboseOutputOnly ==
    (Parsed /\ ~oobRead) =>
        \A p \in FlagSlots(args, 1) :
            args[p] = "-v" =>
                LET r == ParseFrom(Without(args, p), 0, InitialConfig) IN
                ~r.oob =>
                    /\ r.destination.hostname = destination.hostname
                    /\ r.destination.ip = destination.ip
                    /\ Len(r.gateways) = Len(gateways)
                    /\ \A g \in Gw : /\ r.gateways[g].hostname = gateways[g].hostname
                                     /\ r.gateways[g].ip = gateways[g].ip
                    /\ r.max_hops = max_hops
                    /\ r.timeout = timeout

====
